---- MODULE Spec2Model ----
(***************************************************************************)
(* A model of oscar_vat_moss/vat.py: the VAT assessment of an address      *)
(* (lookup_vat_for_address, lookup_vat, lookup_vat_by_vatin and the two    *)
(* rate lookups) and the tax applier (apply_to, calculate_tax).            *)
(*                                                                         *)
(* Text is a sequence of one-character strings, so that the empty string   *)
(* is <<>> (falsy in Python) and "the message includes a country code" is  *)
(* a statement about substrings.  Money is an integer number of cents and  *)
(* a rate an integer number of hundredths (20 is Decimal('0.20')).         *)
(* An optional value is a sequence of length at most 1: <<>> is None.      *)
(*                                                                         *)
(* The three external services (vat_moss.id.validate,                      *)
(* vat_moss.billing_address.calculate_rate and                             *)
(* vat_moss.phone_number.calculate_rate) are not part of the program:      *)
(* every outcome their interface allows is chosen nondeterministically at  *)
(* the call.  The text conversion u() applied to their arguments cannot    *)
(* influence the outcome chosen, so the arguments are not recorded.        *)
(***************************************************************************)
EXTENDS Integers, Sequences, FiniteSets, TLC

\* ------------------------------------------------------------------ bounds

\* The largest number of lines in a basket.
MaxLines == 2

\* ------------------------------------------------------- program constants

VERIFICATIONS_NEEDED == 2

\* -------------------------------------------------------------- input sets

DE == <<"D", "E">>

GB == <<"G", "B">>

GR == <<"G", "R">>

\* Country codes the registry can report and an address can carry.
Countries == {DE, GB, GR}

\* Countries the store can be configured with.
StoreCountries == {DE, GR}

\* country.code of an address: a country code, or the empty string.
CountryCodes == Countries \cup {<<>>}

\* VATINs as typed in by a customer.  Greek VATINs carry the prefix EL.
VATINs == {<<>>, <<"D", "E", "1">>, <<"E", "L", "1">>}

Cities == {<<>>, <<"X">>}

Phones == {<<>>, <<"+", "4">>}

Companies == {<<"A">>}

Postcodes == {<<"1">>}

\* Rates the rate services can report, in hundredths.
Rates == {0, 20, 25}

\* Prices excluding tax, in cents, of basket lines and of the shipping charge.
LinePrices == {5, 1000}

\* Quantities of basket lines.
Quantities == {1, 2, 3}

ShippingPrices == {10, 500}

Fields == {"organisation", "line4", "country", "postcode", "phone_number", "vatin"}

\* An address-like object: the attributes it has, and their values.  The
\* value of "country" stands for an object whose attribute code is that text.
\* An attribute the object lacks has no value; the model writes <<>> there.
MakeAddress(present, co, ci, cc, po, ph, va) ==
    LET given == [organisation |-> co, line4 |-> ci, country |-> cc,
                  postcode |-> po, phone_number |-> ph, vatin |-> va]
    IN  [present |-> present,
         val |-> [f \in Fields |-> IF f \in present THEN given[f] ELSE <<>>]]

Addresses ==
    { MakeAddress(present, co, ci, cc, po, ph, va) :
        present \in SUBSET Fields, co \in Companies, ci \in Cities,
        cc \in CountryCodes, po \in Postcodes, ph \in Phones, va \in VATINs }

\* ---------------------------------------------------------------- outcomes

None == <<>>

Some(x) == <<x>>

\* The outcome of a call: nothing yet, a returned value, or a raised exception.
NoOutcome == [kind |-> "none", type |-> "", message |-> <<>>, value |-> None]

Return(v) == [kind |-> "return", type |-> "", message |-> <<>>, value |-> v]

Raise(t, m) == [kind |-> "raise", type |-> t, message |-> m, value |-> None]

\* The exception types except clause of lookup_vat_for_address names.
TransientErrors == {"URLError", "WebServiceError", "WebServiceUnavailableError"}

\* An exception type that no except clause of the program names: what a
\* service raises when it rejects its arguments.
OtherErrors == {"ValueError"}

\* The prefix of the VATINs of a country: its code, except that Greek
\* VATINs begin with EL.
VATPrefix(c) == IF c = GR THEN <<"E", "L">> ELSE c

\* What vat_moss.id.validate(vatin) can do: raise InvalidError, fail
\* transiently or otherwise, or return a tuple whose first component is the
\* VATIN's registered country, the country whose prefix the VATIN begins with.
ValidateOutcomes(vatin) ==
    {[kind |-> "raise", type |-> t, country |-> <<>>] :
        t \in TransientErrors \cup OtherErrors \cup {"InvalidError"}}
    \cup {[kind |-> "return", type |-> "", country |-> c] :
            c \in {k \in Countries :
                     /\ Len(vatin) >= 2
                     /\ SubSeq(vatin, 1, 2) = VATPrefix(k)}}

\* What a calculate_rate can do: raise UndefinitiveError, fail transiently
\* or otherwise, or return a tuple whose first component is the rate.
RateOutcomes ==
    {[kind |-> "raise", type |-> t, rate |-> 0] :
        t \in TransientErrors \cup OtherErrors \cup {"UndefinitiveError"}}
    \cup {[kind |-> "return", type |-> "", rate |-> r] : r \in Rates}

\* The record of one call of a service: which, and how it ended ("returned",
\* or the type of the exception it raised).
Call(service, res) ==
    [service |-> service,
     result |-> IF res.kind = "return" THEN "returned" ELSE res.type]

\* ------------------------------------------------------------- exceptions

VATAssessmentException(message) == Raise("VATAssessmentException", message)

VATAssessmentUnavailableException(message) ==
    Raise("VATAssessmentUnavailableException", message)

\* 'VATIN %s is not from "%s"' % (vatin, country).  gettext is handed the
\* formatted text, for which no catalogue has an entry, and returns it.
CountryInvalidForVATINException(vatin, country) ==
    Raise("CountryInvalidForVATINException",
          <<"V", "A", "T", "I", "N", " ">> \o vatin
          \o <<" ", "i", "s", " ", "n", "o", "t", " ", "f", "r", "o", "m", " ", "\"">>
          \o country \o <<"\"">>)

\* 'VATIN %s is from same country as store (%s)' % (vatin, country)
VATINCountrySameAsStoreException(vatin, country) ==
    Raise("VATINCountrySameAsStoreException",
          <<"V", "A", "T", "I", "N", " ">> \o vatin
          \o <<" is from same country as store (">> \o country \o <<")">>)

MsgInvalidVATIN == <<"Invalid VAT Identification Number (VATIN)">>

MsgInsufficient == <<"Insufficent information for VAT assessment">>

MsgConflict ==
    <<"Unable to work out applicable VAT rate based on address and phone information">>

MsgUnavailable == <<"Temporary error in VAT assessment">>

\* ------------------------------------------------------------ pure helpers

\* A faulty variant of RoundHalfEven: ties are rounded up (ROUND_HALF_UP).
RoundHalfUp(n, d) ==
    LET q == n \div d
        r == n % d
    IN  IF 2 * r < d THEN q ELSE q + 1

\* Decimal.quantize(D('0.01')) under the default context (ROUND_HALF_EVEN),
\* of the exact quotient n / d, d > 0.
RoundHalfEven(n, d) ==
    LET q == n \div d
        r == n % d
    IN  IF 2 * r < d THEN q
        ELSE IF 2 * r > d THEN q + 1
        ELSE IF q % 2 = 0 THEN q ELSE q + 1

\* price in cents, rate in hundredths: price * rate is in 1/100 cents.
calculate_tax(price, rate) == RoundHalfEven(price * rate, 100)

\* (line_tax / line.quantity).quantize(D('0.01'))
unit_tax_of(line_tax, quantity) == RoundHalfEven(line_tax, quantity)

\* getattr(address, f, '')
getattr(address, f) == IF f \in address.present THEN address.val[f] ELSE <<>>

\* A faulty variant of lookup_vat_by_vatin: the comparison with the store's country
\* is inverted.
lookup_vat_by_vatin_InvertedStore(country_code, vatin, company_name, reg, store_country) ==
    IF reg.kind = "raise" THEN Raise(reg.type, <<>>)
    ELSE IF reg.country # country_code
         THEN CountryInvalidForVATINException(vatin, country_code)
    ELSE IF country_code # store_country
         THEN VATINCountrySameAsStoreException(vatin, country_code)
    ELSE Return(Some(0))

\* A faulty variant of lookup_vat_by_vatin: the store's country is compared before
\* the VATIN's country.
lookup_vat_by_vatin_StoreFirst(country_code, vatin, company_name, reg, store_country) ==
    IF reg.kind = "raise" THEN Raise(reg.type, <<>>)
    ELSE IF country_code = store_country
         THEN VATINCountrySameAsStoreException(vatin, country_code)
    ELSE IF reg.country # country_code
         THEN CountryInvalidForVATINException(vatin, country_code)
    ELSE Return(Some(0))

\* lookup_vat_by_vatin, given what the registry answered (reg) and the
\* configured settings.VAT_MOSS_STORE_COUNTRY_CODE (store_country).
lookup_vat_by_vatin(country_code, vatin, company_name, reg, store_country) ==
    IF reg.kind = "raise" THEN Raise(reg.type, <<>>)
    ELSE IF reg.country # country_code
         THEN CountryInvalidForVATINException(vatin, country_code)
    ELSE IF country_code = store_country
         THEN VATINCountrySameAsStoreException(vatin, country_code)
    ELSE Return(Some(0))

\* ------------------------------------------------------------------- state

VARIABLES
    entry,             \* the function the caller invoked
    pc,                \* the statement about to run
    address,           \* the address-like object (submission['shipping_address'])
    store,             \* settings.VAT_MOSS_STORE_COUNTRY_CODE
    basket,            \* submission['basket'].all_lines()
    shipping,          \* submission['shipping_charge']
    args,              \* the arguments of lookup_vat
    verifications,     \* lookup_vat's local
    address_vat_rate,  \* lookup_vat's local
    phone_vat_rate,    \* lookup_vat's local
    calls,             \* the calls of external services so far, in order
    registered,        \* the country the registry reported, if it reported one
    lv_out,            \* the outcome of lookup_vat
    lfa_out,           \* the outcome of lookup_vat_for_address
    rate,              \* apply_to's local
    idx,               \* apply_to's position in the basket
    apply_out          \* the outcome of apply_to

vars == <<entry, pc, address, store, basket, shipping, args, verifications,
          address_vat_rate, phone_vat_rate, calls, registered, lv_out, lfa_out,
          rate, idx, apply_out>>

NoArgs ==
    [company |-> <<>>, city |-> <<>>, country_code |-> <<>>, postcode |-> <<>>,
     phone_number |-> <<>>, vatin |-> <<>>]

Lines ==
    [line_price_excl_tax_incl_discounts : LinePrices, quantity : Quantities,
     tax : {None}]

Baskets == UNION {[1..n -> Lines] : n \in 0..MaxLines}

ShippingCharges == [excl_tax : ShippingPrices, tax : {None}]

Init ==
    /\ entry \in {"apply_to", "lookup_vat_for_address"}
    /\ pc = "start"
    /\ address \in Addresses
    /\ store \in StoreCountries
    /\ IF entry = "apply_to"
       THEN basket \in Baskets /\ shipping \in ShippingCharges
       ELSE basket = <<>> /\ shipping = [excl_tax |-> 0, tax |-> None]
    /\ args = NoArgs
    /\ verifications = 0
    /\ address_vat_rate = None
    /\ phone_vat_rate = None
    /\ calls = <<>>
    /\ registered = None
    /\ lv_out = NoOutcome
    /\ lfa_out = NoOutcome
    /\ rate = None
    /\ idx = 0
    /\ apply_out = NoOutcome

\* ----------------------------------------------------------------- actions

\* A faulty variant of lookup_vat_for_address_except: WebServiceError is missing
\* from the except clause.
lookup_vat_for_address_except_TwoTypes(out) ==
    IF out.kind = "raise" /\ out.type \in {"URLError", "WebServiceUnavailableError"}
    THEN VATAssessmentUnavailableException(MsgUnavailable)
    ELSE out

\* The except clause of lookup_vat_for_address: a transient failure of a
\* service becomes VATAssessmentUnavailableException; everything else that
\* lookup_vat returns or raises passes through.
lookup_vat_for_address_except(out) ==
    IF out.kind = "raise" /\ out.type \in TransientErrors
    THEN VATAssessmentUnavailableException(MsgUnavailable)
    ELSE out

\* lookup_vat is left with outcome out: the outcome passes through the try
\* statement of lookup_vat_for_address to its caller.
Leave(out) ==
    /\ lv_out' = out
    /\ lfa_out' = lookup_vat_for_address_except(out)
    /\ pc' = IF entry = "apply_to" THEN "apply_rate" ELSE "done"

\* lookup_vat_for_address up to the call of lookup_vat: the six getattr
\* reads, then country.code, which the empty-string default does not have.
LookupVatForAddress ==
    /\ pc = "start"
    /\ LET country == getattr(address, "country")
       IN  IF "country" \notin address.present
           THEN /\ lfa_out' = Raise("AttributeError", <<>>)
                /\ pc' = IF entry = "apply_to" THEN "apply_rate" ELSE "done"
                /\ UNCHANGED args
           ELSE /\ args' = [company |-> getattr(address, "organisation"),
                            city |-> getattr(address, "line4"),
                            country_code |-> country,
                            postcode |-> getattr(address, "postcode"),
                            phone_number |-> getattr(address, "phone_number"),
                            vatin |-> getattr(address, "vatin")]
                /\ pc' = "lv_vatin"
                /\ UNCHANGED lfa_out
    /\ UNCHANGED <<entry, address, store, basket, shipping, verifications,
                   address_vat_rate, phone_vat_rate, calls, registered, lv_out,
                   rate, idx, apply_out>>

\* A faulty variant of lookup_vat_vatin_handler: VATINCountrySameAsStoreException is
\* not caught.
lookup_vat_vatin_handler_NoPass(out) ==
    IF out.kind = "raise" /\ out.type = "InvalidError"
    THEN VATAssessmentException(MsgInvalidVATIN)
    ELSE out

\* What lookup_vat does with the outcome of lookup_vat_by_vatin: a returned
\* rate is returned, InvalidError becomes VATAssessmentException,
\* VATINCountrySameAsStoreException is swallowed ("pass"), and any other
\* exception propagates.  "pass" is the outcome NoOutcome.
lookup_vat_vatin_handler(out) ==
    IF out.kind = "raise" /\ out.type = "InvalidError"
    THEN VATAssessmentException(MsgInvalidVATIN)
    ELSE IF out.kind = "raise" /\ out.type = "VATINCountrySameAsStoreException"
    THEN NoOutcome
    ELSE out

\* lookup_vat, "if vatin:" with the call of lookup_vat_by_vatin.
LookupVatVatin ==
    /\ pc = "lv_vatin"
    /\ IF args.vatin = <<>>
       THEN /\ pc' = "lv_city"
            /\ UNCHANGED <<calls, registered, lv_out, lfa_out>>
       ELSE \E reg \in ValidateOutcomes(args.vatin) :
              LET out == lookup_vat_vatin_handler(
                             lookup_vat_by_vatin(args.country_code, args.vatin,
                                                 args.company, reg, store))
              IN  /\ calls' = Append(calls, Call("vatin", reg))
                  /\ registered' = IF reg.kind = "return"
                                   THEN Some(reg.country) ELSE None
                  /\ IF out.kind = "none"
                     THEN pc' = "lv_city" /\ UNCHANGED <<lv_out, lfa_out>>
                     ELSE Leave(out)
    /\ UNCHANGED <<entry, address, store, basket, shipping, args, verifications,
                   address_vat_rate, phone_vat_rate, rate, idx, apply_out>>

\* lookup_vat, "if city and country_code:" with the call of lookup_vat_by_city.
LookupVatCity ==
    /\ pc = "lv_city"
    /\ IF args.city # <<>> /\ args.country_code # <<>>
       THEN \E res \in RateOutcomes :
              /\ calls' = Append(calls, Call("address", res))
              /\ IF res.kind = "return"
                 THEN /\ address_vat_rate' = Some(res.rate)
                      /\ verifications' = verifications + 1
                      /\ pc' = "lv_phone"
                      /\ UNCHANGED <<lv_out, lfa_out>>
                 ELSE IF res.type = "UndefinitiveError"
                 THEN /\ pc' = "lv_phone"
                      /\ UNCHANGED <<address_vat_rate, verifications, lv_out, lfa_out>>
                 ELSE /\ Leave(Raise(res.type, <<>>))
                      /\ UNCHANGED <<address_vat_rate, verifications>>
       ELSE /\ pc' = "lv_phone"
            /\ UNCHANGED <<calls, address_vat_rate, verifications, lv_out, lfa_out>>
    /\ UNCHANGED <<entry, address, store, basket, shipping, args, phone_vat_rate,
                   registered, rate, idx, apply_out>>

\* lookup_vat, "if phone_number:" with the call of lookup_vat_by_phone_number.
LookupVatPhone ==
    /\ pc = "lv_phone"
    /\ IF args.phone_number # <<>>
       THEN \E res \in RateOutcomes :
              /\ calls' = Append(calls, Call("phone", res))
              /\ IF res.kind = "return"
                 THEN /\ phone_vat_rate' = Some(res.rate)
                      /\ verifications' = verifications + 1
                      /\ pc' = "lv_check"
                      /\ UNCHANGED <<lv_out, lfa_out>>
                 ELSE IF res.type = "UndefinitiveError"
                 THEN /\ pc' = "lv_check"
                      /\ UNCHANGED <<phone_vat_rate, verifications, lv_out, lfa_out>>
                 ELSE /\ Leave(Raise(res.type, <<>>))
                      /\ UNCHANGED <<phone_vat_rate, verifications>>
       ELSE /\ pc' = "lv_check"
            /\ UNCHANGED <<calls, phone_vat_rate, verifications, lv_out, lfa_out>>
    /\ UNCHANGED <<entry, address, store, basket, shipping, args, address_vat_rate,
                   registered, rate, idx, apply_out>>

\* A faulty variant of lookup_vat_decide: the two rates are not compared.
lookup_vat_decide_NoAgreement(n, address_rate, phone_rate) ==
    IF n < VERIFICATIONS_NEEDED THEN VATAssessmentException(MsgInsufficient)
    ELSE Return(address_rate)

\* A faulty variant of lookup_vat_decide: one verification is enough.
lookup_vat_decide_OneIsEnough(n, address_rate, phone_rate) ==
    IF n < VERIFICATIONS_NEEDED - 1 THEN VATAssessmentException(MsgInsufficient)
    ELSE IF address_rate # phone_rate THEN VATAssessmentException(MsgConflict)
    ELSE Return(address_rate)

\* A faulty variant of lookup_vat_decide: the rates conflict only when the address
\* rate is the larger.
lookup_vat_decide_OnlyLarger(n, address_rate, phone_rate) ==
    IF n < VERIFICATIONS_NEEDED THEN VATAssessmentException(MsgInsufficient)
    ELSE IF address_rate[1] > phone_rate[1] THEN VATAssessmentException(MsgConflict)
    ELSE Return(address_rate)

\* The end of lookup_vat: the two checks and the return.
lookup_vat_decide(n, address_rate, phone_rate) ==
    IF n < VERIFICATIONS_NEEDED THEN VATAssessmentException(MsgInsufficient)
    ELSE IF address_rate # phone_rate THEN VATAssessmentException(MsgConflict)
    ELSE Return(address_rate)

LookupVatCheck ==
    /\ pc = "lv_check"
    /\ Leave(lookup_vat_decide(verifications, address_vat_rate, phone_vat_rate))
    /\ UNCHANGED <<entry, address, store, basket, shipping, args, verifications,
                   address_vat_rate, phone_vat_rate, calls, registered, rate, idx,
                   apply_out>>

\* A faulty variant of ApplyToRate: a failed assessment is taken for the zero rate.
ApplyToRate_DefaultZero ==
    /\ pc = "apply_rate"
    /\ rate' = IF lfa_out.kind = "raise" THEN Some(0) ELSE lfa_out.value
    /\ idx' = 1
    /\ pc' = "apply_lines"
    /\ UNCHANGED <<entry, address, store, basket, shipping, args, verifications,
                   address_vat_rate, phone_vat_rate, calls, registered, lv_out,
                   lfa_out, apply_out>>

\* apply_to, line 23: rate = lookup_vat_for_submission(submission).  An
\* exception leaves apply_to; a rate is bound and the loop begins.
ApplyToRate ==
    /\ pc = "apply_rate"
    /\ IF lfa_out.kind = "raise"
       THEN /\ apply_out' = lfa_out
            /\ pc' = "done"
            /\ UNCHANGED <<rate, idx>>
       ELSE /\ rate' = lfa_out.value
            /\ idx' = 1
            /\ pc' = "apply_lines"
            /\ UNCHANGED apply_out
    /\ UNCHANGED <<entry, address, store, basket, shipping, args, verifications,
                   address_vat_rate, phone_vat_rate, calls, registered, lv_out,
                   lfa_out>>

\* The tax apply_to writes into a line.
line_unit_tax(line, r) ==
    unit_tax_of(calculate_tax(line.line_price_excl_tax_incl_discounts, r),
                line.quantity)

\* apply_to, one iteration of the loop over the basket's lines.
ApplyToLine ==
    /\ pc = "apply_lines"
    /\ idx <= Len(basket)
    /\ basket' = [basket EXCEPT ![idx].tax = Some(line_unit_tax(basket[idx], rate[1]))]
    /\ idx' = idx + 1
    /\ UNCHANGED <<entry, pc, address, store, shipping, args, verifications,
                   address_vat_rate, phone_vat_rate, calls, registered, lv_out,
                   lfa_out, rate, apply_out>>

\* apply_to, after the loop: the shipping charge's tax, and the return.
ApplyToShipping ==
    /\ pc = "apply_lines"
    /\ idx > Len(basket)
    /\ shipping' = [shipping EXCEPT !.tax = Some(calculate_tax(shipping.excl_tax, rate[1]))]
    /\ apply_out' = Return(None)
    /\ pc' = "done"
    /\ UNCHANGED <<entry, address, store, basket, args, verifications,
                   address_vat_rate, phone_vat_rate, calls, registered, lv_out,
                   lfa_out, rate, idx>>

Next ==
    \/ LookupVatForAddress
    \/ LookupVatVatin
    \/ LookupVatCity
    \/ LookupVatPhone
    \/ LookupVatCheck
    \/ ApplyToRate
    \/ ApplyToLine
    \/ ApplyToShipping

Spec == Init /\ [][Next]_vars

\* ------------------------------------------------------- claim vocabulary

\* lookup_vat has returned or raised.
LookupVatLeft == lv_out.kind # "none"

Called(service) == \E i \in 1..Len(calls) : calls[i].service = service

\* The service was called and ended with result.
CallEnded(service, result) ==
    \E i \in 1..Len(calls) : calls[i] = [service |-> service, result |-> result]

\* No rate service has been called.
NoRateLookup == ~Called("address") /\ ~Called("phone")

\* The registry validated the VATIN of this call.
Validated == registered # None

\* text occurs in message as a substring.
Contains(message, text) ==
    \E i \in 0..(Len(message) - Len(text)) :
        SubSeq(message, i + 1, i + Len(text)) = text

\* The zero rate of the reverse-charge path: the registry validated the VATIN
\* as registered in the supplied country, which is not the store's, and
\* lookup_vat returned 0 then and there.
ReverseCharge ==
    /\ Validated
    /\ registered[1] = args.country_code
    /\ args.country_code # store
    /\ calls = <<Call("vatin", [kind |-> "return"])>>
    /\ lv_out = Return(Some(0))

\* Both rate lookups were made in this call, each returned a rate, and the
\* two rates are equal to the rate lookup_vat returned.
Corroborated ==
    /\ CallEnded("address", "returned")
    /\ CallEnded("phone", "returned")
    /\ address_vat_rate # None
    /\ address_vat_rate = phone_vat_rate
    /\ lv_out = Return(address_vat_rate)

\* ------------------------------------------------------------------ claims

\* C1: a rate returned by lookup_vat is either the zero of the reverse-charge
\* path or the common value of an address rate and a phone rate that were
\* both obtained in the same call; never a rate backed by one lookup alone.
C1_ReturnedRateIsZeroOrCorroborated ==
    lv_out.kind = "return" => (ReverseCharge \/ Corroborated)

\* C1 witness: lookup_vat returned a non-zero rate that both lookups gave.
C1_Witness ==
    /\ lv_out = Return(Some(20))
    /\ verifications = 2
    /\ Corroborated

\* C2: when the registry validates the VATIN as registered in the supplied
\* country and that country is not the store's, lookup_vat returns rate 0
\* and the registry is the only service that was called.
C2_ForeignVatinShortCircuits ==
    (Validated /\ registered[1] = args.country_code /\ args.country_code # store)
        => /\ lv_out = Return(Some(0))
           /\ lfa_out = Return(Some(0))
           /\ Len(calls) = 1
           /\ NoRateLookup

\* C2 witness: a Greek VATIN (prefix EL) on a Greek address of a German
\* store, with a city and a phone number that were never looked up.
C2_Witness ==
    /\ args.vatin = <<"E", "L", "1">>
    /\ registered = Some(GR)
    /\ args.country_code = GR
    /\ store = DE
    /\ args.city # <<>>
    /\ args.phone_number # <<>>
    /\ lv_out = Return(Some(0))
    /\ NoRateLookup

\* C3 as stated: when the VATIN's registered country differs from the
\* supplied country code, lookup_vat raises the country-mismatch failure,
\* its message includes both the registered and the supplied country code,
\* and no rate lookup is made.
C3_Original ==
    (Validated /\ registered[1] # args.country_code)
        => /\ lv_out.kind = "raise"
           /\ lv_out.type = "CountryInvalidForVATINException"
           /\ Contains(lv_out.message, registered[1])
           /\ Contains(lv_out.message, args.country_code)
           /\ NoRateLookup

\* C3 as amended: when the VATIN's registered country differs from the
\* supplied country code, lookup_vat raises the country-mismatch failure,
\* whatever the store's country, its message is 'VATIN <vatin> is not from
\* "<supplied country code>"' (the VATIN as supplied and the supplied country
\* code, not the registered country), the failure reaches the caller of
\* lookup_vat_for_address unchanged, and no rate lookup is made.
C3_MismatchNamesVatinAndSuppliedCountry ==
    (Validated /\ registered[1] # args.country_code)
        => /\ lv_out.kind = "raise"
           /\ lv_out.type = "CountryInvalidForVATINException"
           /\ lv_out.message =
                  <<"V", "A", "T", "I", "N", " ">> \o args.vatin
                  \o <<" ", "i", "s", " ", "n", "o", "t", " ", "f", "r", "o", "m", " ", "\"">>
                  \o args.country_code \o <<"\"">>
           /\ Contains(lv_out.message, args.vatin)
           /\ Contains(lv_out.message, args.country_code)
           /\ lfa_out = lv_out
           /\ NoRateLookup

\* C3 witness: a VATIN registered in the store's own country, supplied with
\* another country, fails with the mismatch and not with a fall-through.
C3_Witness ==
    /\ Validated
    /\ registered[1] = store
    /\ args.country_code # <<>>
    /\ args.country_code # store
    /\ args.city # <<>>
    /\ lv_out.type = "CountryInvalidForVATINException"
    /\ ~Contains(lv_out.message, registered[1])

\* lookup_vat was left by its corroboration steps: by the two checks at its
\* end, or by a failure of a rate service that lookup_vat does not handle.
DecidedByCorroboration ==
    \/ lv_out = VATAssessmentException(MsgInsufficient)
    \/ lv_out = VATAssessmentException(MsgConflict)
    \/ Corroborated
    \/ /\ lv_out.kind = "raise"
       /\ lv_out.type \in TransientErrors \cup OtherErrors
       /\ calls[Len(calls)].service \in {"address", "phone"}
       /\ calls[Len(calls)].result = lv_out.type

\* The VATIN step has run and did not leave lookup_vat: the corroboration
\* steps are running, or they have decided the outcome.
FellThrough ==
    /\ IF LookupVatLeft
       THEN DecidedByCorroboration
       ELSE pc \in {"lv_city", "lv_phone", "lv_check"}
    /\ lv_out.type # "VATINCountrySameAsStoreException"
    /\ lfa_out.type # "VATINCountrySameAsStoreException"
    /\ apply_out.type # "VATINCountrySameAsStoreException"

\* C4 as stated: when the VATIN's registered country is the store's country,
\* lookup_vat is not left by the VATIN step; it goes on to the address and
\* phone steps, which alone decide its outcome, and the same-country signal
\* reaches no caller.
C4_Original ==
    (Validated /\ registered[1] = store) => FellThrough

\* C4 as amended: when the VATIN's registered country is the store's country
\* and also the supplied country code, lookup_vat is not left by the VATIN
\* step; it goes on to the address and phone steps, which alone decide its
\* outcome, and the same-country signal reaches no caller.  (With another
\* supplied country code the country-mismatch failure comes first.)
C4_DomesticVatinFallsThrough ==
    (Validated /\ registered[1] = store /\ args.country_code = store)
        => FellThrough

\* C4 witness: a domestic VATIN, and a rate of 25 that both lookups gave.
C4_Witness ==
    /\ Validated
    /\ registered[1] = store
    /\ args.country_code = store
    /\ Len(calls) = 3
    /\ lv_out = Return(Some(25))

\* A lookup was skipped for want of its inputs, or its service reported an
\* indefinite result: fewer than 2 of the two results are obtainable.
AddressSkipped == args.city = <<>> \/ args.country_code = <<>>

PhoneSkipped == args.phone_number = <<>>

FewerThanTwoObtainable ==
    \/ AddressSkipped
    \/ PhoneSkipped
    \/ CallEnded("address", "UndefinitiveError")
    \/ CallEnded("phone", "UndefinitiveError")

\* The number of rate lookups that returned a rate.
RatesObtained ==
    Cardinality({i \in 1..Len(calls) :
                    /\ calls[i].service \in {"address", "phone"}
                    /\ calls[i].result = "returned"})

\* The verification counter counts the lookups that returned a rate, and a
\* rate comes out of the corroboration steps only with a counter of 2 or more.
CounterCounts ==
    /\ pc # "start" => verifications = RatesObtained
    /\ (lv_out.kind = "return" /\ ~ReverseCharge)
           => verifications >= VERIFICATIONS_NEEDED

\* No service raised an exception that lookup_vat does not handle.
NoServiceFailure ==
    \A i \in 1..Len(calls) :
        calls[i].result \in {"returned", "InvalidError", "UndefinitiveError"}

\* C5 as stated: whenever fewer than 2 of the address and phone results are
\* obtainable (a lookup is skipped, or its service reports an indefinite
\* result), lookup_vat fails with "insufficient information"; the counter
\* counts the lookups that returned a rate and must reach 2.  The statement
\* is taken to be about calls in which no service fails.
C5_Original ==
    /\ (LookupVatLeft /\ NoServiceFailure /\ FewerThanTwoObtainable)
           => lv_out = VATAssessmentException(MsgInsufficient)
    /\ CounterCounts

\* The VATIN step let the call go on: there was no VATIN, or the VATIN was
\* validated as registered in the supplied country, which is the store's.
VatinStepPassed ==
    \/ args.vatin = <<>>
    \/ Validated /\ registered[1] = args.country_code /\ args.country_code = store

\* C5 as amended: when the VATIN step does not end the call (no VATIN, or a
\* VATIN validated as registered in the supplied country, which is the
\* store's) and no service that is called fails (transiently or otherwise),
\* then whenever fewer than 2 of the address and phone results are
\* obtainable lookup_vat fails with
\* "insufficient information"; the counter counts the lookups that returned
\* a rate and must reach 2 for corroboration to return a rate.
C5_TooFewResultsIsInsufficient ==
    /\ (LookupVatLeft /\ VatinStepPassed /\ NoServiceFailure
        /\ FewerThanTwoObtainable)
           => /\ lv_out = VATAssessmentException(MsgInsufficient)
              /\ lfa_out = lv_out
              /\ verifications < VERIFICATIONS_NEEDED
    /\ CounterCounts

\* C5 witness: the address gave a rate and the phone service an indefinite
\* result: one verification, and the "insufficient information" failure.
C5_Witness ==
    /\ args.vatin = <<>>
    /\ CallEnded("address", "returned")
    /\ CallEnded("phone", "UndefinitiveError")
    /\ verifications = 1
    /\ lv_out = VATAssessmentException(MsgInsufficient)

\* C6: when the address service and the phone service returned different
\* rates, lookup_vat fails with "conflicting rates" whichever is the larger,
\* and returns no rate.
C6_DifferentRatesConflict ==
    (/\ LookupVatLeft
     /\ CallEnded("address", "returned")
     /\ CallEnded("phone", "returned")
     /\ address_vat_rate # phone_vat_rate)
        => /\ lv_out = VATAssessmentException(MsgConflict)
           /\ lfa_out = lv_out
           /\ rate = None

\* C6 witness: the address rate is the smaller of the two.
C6_Witness ==
    /\ address_vat_rate = Some(20)
    /\ phone_vat_rate = Some(25)
    /\ lv_out = VATAssessmentException(MsgConflict)

Abs(x) == IF x < 0 THEN -x ELSE x

\* round2 of n/d for n >= 0 < d, stated by what it is: the integer nearest
\* to n/d, and of two equally near integers the even one.
Round2(n, d) ==
    CHOOSE t \in 0..n :
        /\ 2 * Abs(t * d - n) <= d
        /\ 2 * Abs(t * d - n) = d => t % 2 = 0

\* C7: after apply_to returns, with resolved rate R every line of price P
\* and quantity Q has unit tax round2(round2(P*R)/Q) and the shipping charge
\* of price S has tax round2(S*R), round2 rounding half to even; so P=10.00,
\* R=0.20, Q=3 gives 0.67 and S=5.00, R=0.20 gives 1.00.
C7_TaxesAreRoundedTwice ==
    (entry = "apply_to" /\ apply_out.kind = "return")
        => /\ rate = lfa_out.value
           /\ \A i \in 1..Len(basket) :
                LET P == basket[i].line_price_excl_tax_incl_discounts
                    Q == basket[i].quantity
                IN  /\ basket[i].tax = Some(Round2(Round2(P * rate[1], 100), Q))
                    /\ (P = 1000 /\ Q = 3 /\ rate[1] = 20) => basket[i].tax = Some(67)
           /\ shipping.tax = Some(Round2(shipping.excl_tax * rate[1], 100))
           /\ (shipping.excl_tax = 500 /\ rate[1] = 20) => shipping.tax = Some(100)

\* C7 witness: rate 0.20 applied to a line of 10.00 x 3, to a line of
\* 0.05 x 2 (whose unit tax is the tie 0.005, rounded to 0.00) and to a
\* shipping charge of 5.00.
C7_Witness ==
    /\ apply_out.kind = "return"
    /\ rate = Some(20)
    /\ Len(basket) = 2
    /\ basket[1].line_price_excl_tax_incl_discounts = 1000
    /\ basket[1].quantity = 3
    /\ basket[1].tax = Some(67)
    /\ basket[2].line_price_excl_tax_incl_discounts = 5
    /\ basket[2].quantity = 2
    /\ basket[2].tax = Some(0)
    /\ shipping.excl_tax = 500
    /\ shipping.tax = Some(100)

\* C8: a transient failure of any of the three services reaches the caller
\* of lookup_vat_for_address as VATAssessmentUnavailableException only: not
\* as the transport error, and not as one of the business-rule failures.
C8_TransientBecomesUnavailable ==
    (\E i \in 1..Len(calls) : calls[i].result \in TransientErrors)
        => /\ lv_out.type \in TransientErrors
           /\ lfa_out.kind = "raise"
           /\ lfa_out.type = "VATAssessmentUnavailableException"
           /\ lfa_out.type \notin TransientErrors \cup {"VATAssessmentException"}
           /\ lfa_out.message \notin {MsgInvalidVATIN, MsgInsufficient, MsgConflict}

\* C8 witness: the phone service, called last, answers with a
\* WebServiceError (a malformed response).
C8_Witness ==
    /\ Len(calls) = 3
    /\ CallEnded("phone", "WebServiceError")
    /\ lfa_out.type = "VATAssessmentUnavailableException"

\* C9 as stated: whichever attributes the address object lacks, each is
\* read as the empty string, lookup_vat is called with those values, and
\* the outcome of lookup_vat_for_address is one lookup_vat produces: a rate
\* or an assessment failure.
C9_Claim ==
    lfa_out.kind # "none"
        => /\ LookupVatLeft
           /\ \A f \in Fields \ address.present :
                  <<>> = CASE f = "organisation" -> args.company
                           [] f = "line4" -> args.city
                           [] f = "country" -> args.country_code
                           [] f = "postcode" -> args.postcode
                           [] f = "phone_number" -> args.phone_number
                           [] f = "vatin" -> args.vatin
           /\ \/ lfa_out.kind = "return"
              \/ lfa_out.type \in {"VATAssessmentException",
                                   "VATAssessmentUnavailableException",
                                   "CountryInvalidForVATINException"}

\* Every tax field of the submission is as it was before apply_to.
SubmissionUntouched ==
    /\ \A i \in 1..Len(basket) : basket[i].tax = None
    /\ shipping.tax = None

\* C10: apply_to writes no tax field before the rate is resolved, and none
\* at all when the resolution fails; when it succeeds, the tax of every
\* line is written before the tax of the shipping charge.
C10_RateBeforeTaxes ==
    entry = "apply_to"
        => /\ lfa_out.kind # "return" => SubmissionUntouched
           /\ apply_out.kind = "raise"
                  => SubmissionUntouched /\ apply_out = lfa_out /\ pc = "done"
           /\ shipping.tax # None
                  => \A i \in 1..Len(basket) : basket[i].tax # None

\* C10 witness: the assessment of the address of a two-line basket failed,
\* apply_to is over and no tax field was written.
C10_Witness ==
    /\ entry = "apply_to"
    /\ pc = "done"
    /\ Len(basket) = 2
    /\ apply_out.type = "VATAssessmentException"
    /\ SubmissionUntouched

====
